---- MODULE Spec2Model ----
(***************************************************************************)
(* A model of battery_control.py: BatteryController, the state file it     *)
(* keeps, the SoftFileLock that guards the file, and the smart plug.       *)
(*                                                                         *)
(* Every command-line invocation is a short-lived process.  Procs are the  *)
(* process slots; a slot runs one invocation of one method at a time and   *)
(* is reused afterwards.  Each method is cut at the points where another   *)
(* process can observe or interfere: before the lock is taken, after the   *)
(* state file is read, after the plug has been driven, after the state     *)
(* file is written, and after the lock is released.                        *)
(*                                                                         *)
(* Times are whole seconds since the first invocation.                     *)
(***************************************************************************)
EXTENDS Integers, FiniteSets, Sequences, TLC

(* ------------------------------ bounds -------------------------------- *)

\* The number of times the clock advances in one behaviour.
MaxTicks == 1

\* The number of invocations started in one behaviour.
MaxInvocations == 2

\* The process slots: how many invocations can be in flight at once.
Procs == {1, 2}

\* The amounts by which the clock advances: exactly the sleep interval
\* (which is past the lock timeout) and exactly the manual override interval.
TickSteps == {120, 86400}

\* The battery percentages psutil may report: both sides of each threshold,
\* and one well above the charge threshold.
BatteryLevels == {30, 50, 51, 75, 80}

\* The battery percentages and the clock steps of the concurrent
\* specification: a level at or below every threshold and one at or above
\* every threshold; a step that passes both the lock timeout and the sleep
\* interval.
ConcurrentBatteryLevels == {30, 75}
ConcurrentTickSteps == {120}

(* ------------------------- program constants -------------------------- *)

_DISCHARGE_THRESHOLD == 50
_CHARGE_THRESHOLD == 75
_SLEEP_CHARGE_THRESHOLD == 30
_MANUAL_OVERRIDE_INTERVAL == 86400
_SLEEP_INTERVAL == 120
_HOME_SSID == "HomeSSID"

\* What _ssid() may return: the home network, or anything else (another
\* network, or None).
SSIDs == {_HOME_SSID, "OtherSSID"}

\* The timeout _lock() gives SoftFileLock.
LockTimeout == 30

\* _optimistic_lock() gives SoftFileLock no timeout, so the lock has the
\* library's default timeout of -1: wait without bound.
OptimisticLockTimeout == -1

Methods ==
    {"poll", "print_status", "enable_manual_override",
     "disable_manual_override", "prepare_for_sleep", "scan"}

(* --------------------------- the state file --------------------------- *)

\* A state is a function from the field names present to their values.
NoFile == [k \in {} |-> TRUE]
NoStatus == [k \in {} |-> TRUE]

Has(s, k) == k \in DOMAIN s
Pop(s, k) == [j \in DOMAIN s \ {k} |-> s[j]]
Put(s, k, v) == [j \in DOMAIN s \cup {k} |-> IF j = k THEN v ELSE s[j]]

\* datetime.isoformat(): the date and the time of day, written apart.
isoformat(t) == [date |-> t \div 86400, time |-> t % 86400]

\* datetime.fromisoformat()
fromisoformat(s) == s.date * 86400 + s.time

\* A variant of _default_state that starts with the plug recorded as off.
_default_state_Off == [currentState |-> FALSE, defaultState |-> TRUE]

\* Lines 108-113.
_default_state == [currentState |-> TRUE, defaultState |-> TRUE]

_read_state(f) == IF f = NoFile THEN _default_state ELSE f

VARIABLES
    now,            \* the wall clock
    ticks,          \* how often the clock has advanced
    started,        \* how many invocations have been started
    file,           \* the contents of _STATE_FILENAME, or NoFile
    lockFile,       \* whether the lock file exists
    plug,           \* whether the smart plug is on
    method,         \* per process: the method it runs
    pc,             \* per process: where it is in the method
    status,         \* per process: the local ``status``
    seen,           \* per process: the file contents _read_state() saw
    given,          \* per process: the status handed to _poll
    sleep_battery,  \* per process: ``battery`` of prepare_for_sleep
    is_on,          \* per process: ``plug.is_on`` of scan
    lock_start,     \* per process: when it began to wait for the lock
    ssid,           \* per process: what _ssid() returned in _poll
    poll_now,       \* per process: ``now`` of _poll
    battery,        \* per process: ``battery`` of _poll
    desired_state,  \* per process: ``desired_state`` of _poll
    driver,         \* per process: the plug call _poll made
    printed,        \* per process: what print_status printed
    error           \* per process: the exception that ended the method

env == <<now, ticks, started>>
shared == <<file, lockFile, plug>>
callerLocals == <<status, seen, given, sleep_battery, is_on, lock_start>>
pollLocals == <<ssid, poll_now, battery, desired_state, driver>>
vars == <<env, shared, method, pc, callerLocals, pollLocals, printed, error>>

\* The values of locals that have not been assigned.
NoBattery == -1
NoTime == -1
NoSsid == "unread"
NoDesired == "unset"
NoIsOn == "unset"

(* ------------------------------- _poll -------------------------------- *)

\* A variant of ExpireOverride that keeps the override at the very second
\* it expires.
ExpireOverride_Strict(s, t) ==
    IF Has(s, "manualOverrideState")
       /\ t > fromisoformat(s["manualOverrideStateExpiresAt"])
    THEN Pop(Pop(s, "manualOverrideState"), "manualOverrideStateExpiresAt")
    ELSE s

\* Lines 225-230: discard a manual override that has expired.
ExpireOverride(s, t) ==
    IF Has(s, "manualOverrideState")
       /\ t >= fromisoformat(s["manualOverrideStateExpiresAt"])
    THEN Pop(Pop(s, "manualOverrideState"), "manualOverrideStateExpiresAt")
    ELSE s

\* A variant of ExpireKeep that discards keepStateUntil whatever the time.
ExpireKeep_Always(s, t) ==
    IF Has(s, "keepStateUntil") THEN Pop(s, "keepStateUntil") ELSE s

\* Lines 231-234: discard a keepStateUntil that has passed.
ExpireKeep(s, t) ==
    IF Has(s, "keepStateUntil") /\ t >= fromisoformat(s["keepStateUntil"])
    THEN Pop(s, "keepStateUntil")
    ELSE s

\* A variant of ReadsBattery that applies the thresholds in every run.
ReadsBattery_Always(s) == TRUE

\* Line 236: whether _poll reads the battery and applies the thresholds.
ReadsBattery(s) == ~Has(s, "keepStateUntil")

\* A variant of Thresholds with strict comparisons.
Thresholds_Strict(defaultState, b) ==
    IF defaultState
    THEN (IF b > _CHARGE_THRESHOLD THEN FALSE ELSE defaultState)
    ELSE (IF b < _DISCHARGE_THRESHOLD THEN TRUE ELSE defaultState)

\* Lines 238-242: the two thresholds.
Thresholds(defaultState, b) ==
    IF defaultState
    THEN (IF b >= _CHARGE_THRESHOLD THEN FALSE ELSE defaultState)
    ELSE (IF b <= _DISCHARGE_THRESHOLD THEN TRUE ELSE defaultState)

\* A variant of Hysteresis whose thresholds are exchanged, so that the band
\* between them switches defaultState in every run.
Hysteresis_Overlapping(s, b) ==
    IF ReadsBattery(s)
    THEN Put(s, "defaultState",
             IF s["defaultState"]
             THEN (IF b >= _DISCHARGE_THRESHOLD THEN FALSE ELSE TRUE)
             ELSE (IF b <= _CHARGE_THRESHOLD THEN TRUE ELSE FALSE))
    ELSE s

\* Lines 236-242.
Hysteresis(s, b) ==
    IF ReadsBattery(s)
    THEN Put(s, "defaultState", Thresholds(s["defaultState"], b))
    ELSE s

\* A variant of DesiredState that does not look at the override.
DesiredState_IgnoresOverride(s) == s["defaultState"]

\* Lines 244-247.
DesiredState(s) ==
    IF Has(s, "manualOverrideState")
    THEN s["manualOverrideState"]
    ELSE s["defaultState"]

\* A variant of OnHomeNetwork that never returns early.
OnHomeNetwork_Always(s) == TRUE

\* Line 220.
OnHomeNetwork(s) == s = _HOME_SSID

\* Lines 224-247: the status and the desired state before the plug is driven.
Decide(s, t, b) == Hysteresis(ExpireKeep(ExpireOverride(s, t), t), b)

\* A variant of DriverCall with the two calls exchanged.
DriverCall_Inverted(desired) == IF desired THEN "turn_off" ELSE "turn_on"

\* Lines 250-253: the call that brings the plug to the desired state.
DriverCall(desired) == IF desired THEN "turn_on" ELSE "turn_off"

\* A variant of AfterDriver that assigns currentState before the call.
AfterDriver_AssignsFirst(s, desired, ok) == Put(s, "currentState", desired)

\* Lines 249-254: ``status`` after the plug call, which answered (ok) or
\* raised.  The assignment of line 254 follows the call.
AfterDriver(s, desired, ok) ==
    IF ok THEN Put(s, "currentState", desired) ELSE s

\* A variant of PcAfterDriver that swallows the exception of the call.
PcAfterDriver_Swallowed(ok) == "write"

\* Where _poll goes on after the plug call: to _write_state of line 256,
\* or, when the call raised, out of the method through its ``with``.
PcAfterDriver(ok) == IF ok THEN "write" ELSE "unwind"

\* Lines 220-256 as a function, for a plug that answers: the status _poll
\* writes and the plug call it makes, given the status s, the network name
\* net, the time t and the battery percentage b.
PollResult(s, net, t, b) ==
    IF ~OnHomeNetwork(net)
    THEN [status |-> s, driver |-> "none"]
    ELSE LET decided == Decide(s, t, b)
             desired == DesiredState(decided)
         IN  IF desired = decided["currentState"]
             THEN [status |-> decided, driver |-> "none"]
             ELSE [status |-> AfterDriver(decided, desired, TRUE),
                   driver |-> DriverCall(desired)]

\* Lines 220-254 of _poll, run by process p with the network name s, the
\* battery percentage b and the plug answering (ok) or not.
_poll(p, s, b, ok) ==
    /\ pc[p] = "poll"
    /\ ssid' = [ssid EXCEPT ![p] = s]
    /\ IF ~OnHomeNetwork(s)
       THEN /\ pc' = [pc EXCEPT ![p] = "write"]
            /\ UNCHANGED <<status, poll_now, battery, desired_state, driver,
                           plug, error>>
       ELSE LET decided == Decide(status[p], now, b)
                read == ReadsBattery(ExpireKeep(ExpireOverride(status[p], now), now))
                desired == DesiredState(decided)
            IN  /\ poll_now' = [poll_now EXCEPT ![p] = now]
                /\ battery' = [battery EXCEPT ![p] = IF read THEN b ELSE NoBattery]
                /\ desired_state' = [desired_state EXCEPT ![p] = desired]
                /\ IF desired = decided["currentState"]
                   THEN /\ status' = [status EXCEPT ![p] = decided]
                        /\ pc' = [pc EXCEPT ![p] = "write"]
                        /\ UNCHANGED <<driver, plug, error>>
                   ELSE /\ driver' = [driver EXCEPT ![p] = DriverCall(desired)]
                        /\ status' = [status EXCEPT ![p] =
                               AfterDriver(decided, desired, ok)]
                        /\ pc' = [pc EXCEPT ![p] = PcAfterDriver(ok)]
                        /\ plug' = (IF ok THEN DriverCall(desired) = "turn_on"
                                    ELSE plug)
                        /\ error' = [error EXCEPT ![p] =
                               IF ok THEN "none" ELSE "RuntimeError in _poll"]
    /\ UNCHANGED <<env, file, lockFile, method, seen, given, sleep_battery, is_on,
                   lock_start, printed>>

\* A variant of _write_state that returns without writing the file.
_write_state_Skipped(p) ==
    /\ pc[p] = "write"
    /\ pc' = [pc EXCEPT ![p] = "release"]
    /\ UNCHANGED <<env, shared, method, callerLocals, pollLocals, printed, error>>

\* Lines 221 and 256: _write_state(status).
_write_state(p) ==
    /\ pc[p] = "write"
    /\ file' = status[p]
    /\ pc' = [pc EXCEPT ![p] = "release"]
    /\ UNCHANGED <<env, lockFile, plug, method, callerLocals, pollLocals, printed, error>>

(* ------------------------------ the lock ------------------------------ *)

\* Lines 269 and 285: the timeout of the lock a method takes.  poll takes
\* _optimistic_lock(), every other locking method _lock().
TimeoutOf(m) == IF m = "poll" THEN OptimisticLockTimeout ELSE LockTimeout

\* A variant of TimedOut that gives up at the first failed attempt.
TimedOut_AtOnce(timeout, waited) == 0 <= timeout

\* SoftFileLock.acquire gives up when 0 <= timeout < the time waited.
TimedOut(timeout, waited) == 0 <= timeout /\ timeout < waited

\* A variant of CanCreateLockFile that does not create it exclusively.
CanCreateLockFile_Always == TRUE

\* SoftFileLock creates the lock file only if it does not exist.
CanCreateLockFile == ~lockFile

\* The statements inside a ``with`` of the lock.
Locked == {"read", "poll", "write", "release", "unwind"}

\* ``with`` entering the lock (lines 295, 315, 327, 342, 367): one attempt
\* to create the lock file.  A failed attempt either raises Timeout or
\* leaves the process waiting for its next attempt.
Acquire(p) ==
    /\ pc[p] \in {"lock", "wait"}
    /\ IF CanCreateLockFile
       THEN /\ lockFile' = TRUE
            /\ pc' = [pc EXCEPT ![p] = "read"]
            /\ UNCHANGED error
       ELSE /\ UNCHANGED lockFile
            /\ IF TimedOut(TimeoutOf(method[p]), now - lock_start[p])
               THEN /\ pc' = [pc EXCEPT ![p] = "raised"]
                    /\ error' = [error EXCEPT ![p] = "Timeout"]
               ELSE /\ pc[p] = "lock"
                    /\ pc' = [pc EXCEPT ![p] = "wait"]
                    /\ UNCHANGED error
    /\ UNCHANGED <<env, file, plug, method, callerLocals, pollLocals, printed>>

\* A variant of ExitRemovesLockFile that forgets the exceptional exit.
ExitRemovesLockFile_OnReturn(how) == how = "release"

\* Whether leaving the ``with`` removes the lock file, by the way it is
\* left ("release": the block ended, "unwind": an exception passes through).
ExitRemovesLockFile(how) == TRUE

\* The method returns or raises: its locals, and those of _poll, are gone.
ReturnFrom(p) ==
    /\ status' = [status EXCEPT ![p] = NoStatus]
    /\ seen' = [seen EXCEPT ![p] = NoFile]
    /\ given' = [given EXCEPT ![p] = NoStatus]
    /\ sleep_battery' = [sleep_battery EXCEPT ![p] = NoBattery]
    /\ is_on' = [is_on EXCEPT ![p] = NoIsOn]
    /\ lock_start' = [lock_start EXCEPT ![p] = NoTime]
    /\ ssid' = [ssid EXCEPT ![p] = NoSsid]
    /\ poll_now' = [poll_now EXCEPT ![p] = NoTime]
    /\ battery' = [battery EXCEPT ![p] = NoBattery]
    /\ desired_state' = [desired_state EXCEPT ![p] = NoDesired]
    /\ driver' = [driver EXCEPT ![p] = "none"]
    /\ method' = [method EXCEPT ![p] = "none"]

\* ``with`` leaving the lock, and the method ending with it.
Release(p) ==
    /\ pc[p] \in {"release", "unwind"}
    /\ lockFile' = (lockFile /\ ~ExitRemovesLockFile(pc[p]))
    /\ pc' = [pc EXCEPT ![p] = IF pc[p] = "release" THEN "done" ELSE "raised"]
    /\ ReturnFrom(p)
    /\ UNCHANGED <<env, file, plug, printed, error>>

(* ----------------------------- the methods ---------------------------- *)

\* A variant of Mutate whose disable_manual_override removes only
\* manualOverrideState.
Mutate_HalfDisable(m, s, t, b, on) ==
    CASE m = "enable_manual_override" ->
            Put(Put(s, "manualOverrideState", TRUE),
                "manualOverrideStateExpiresAt",
                isoformat(t + _MANUAL_OVERRIDE_INTERVAL))
      [] m = "disable_manual_override" -> Pop(s, "manualOverrideState")
      [] m = "prepare_for_sleep" ->
            Put(Put(s, "defaultState", b <= _SLEEP_CHARGE_THRESHOLD),
                "keepStateUntil", isoformat(t + _SLEEP_INTERVAL))
      [] m = "scan" -> Put(s, "currentState", on)
      [] OTHER -> s

\* A variant of Mutate whose enable_manual_override stores the override
\* as off.
Mutate_OverrideOff(m, s, t, b, on) ==
    CASE m = "enable_manual_override" ->
            Put(Put(s, "manualOverrideState", FALSE),
                "manualOverrideStateExpiresAt",
                isoformat(t + _MANUAL_OVERRIDE_INTERVAL))
      [] m = "disable_manual_override" ->
            Pop(Pop(s, "manualOverrideState"), "manualOverrideStateExpiresAt")
      [] m = "prepare_for_sleep" ->
            Put(Put(s, "defaultState", b <= _SLEEP_CHARGE_THRESHOLD),
                "keepStateUntil", isoformat(t + _SLEEP_INTERVAL))
      [] m = "scan" -> Put(s, "currentState", on)
      [] OTHER -> s

\* The mutation each method applies to the state it read, at time t
\* (lines 317-320, 329-330, 344-348, 369; poll applies none).
Mutate(m, s, t, b, on) ==
    CASE m = "enable_manual_override" ->
            Put(Put(s, "manualOverrideState", TRUE),
                "manualOverrideStateExpiresAt",
                isoformat(t + _MANUAL_OVERRIDE_INTERVAL))
      [] m = "disable_manual_override" ->
            Pop(Pop(s, "manualOverrideState"), "manualOverrideStateExpiresAt")
      [] m = "prepare_for_sleep" ->
            Put(Put(s, "defaultState", b <= _SLEEP_CHARGE_THRESHOLD),
                "keepStateUntil", isoformat(t + _SLEEP_INTERVAL))
      [] m = "scan" -> Put(s, "currentState", on)
      [] OTHER -> s

\* Whether no invocation is running in slot p.
Ended(p) == pc[p] \in {"idle", "done", "raised"}

\* No invocation is running.
Alone == \A p \in Procs : Ended(p)

\* A new process takes the first free slot and begins method m.
Begin(p, m) ==
    /\ Ended(p)
    /\ \A q \in Procs : q < p => ~Ended(q)
    /\ started < MaxInvocations
    /\ started' = started + 1
    /\ method' = [method EXCEPT ![p] = m]
    /\ UNCHANGED <<now, ticks, shared, seen, given, pollLocals>>

\* The process reaches the ``with`` of the lock and starts its clock.
EnterWith(p) ==
    /\ pc' = [pc EXCEPT ![p] = "lock"]
    /\ lock_start' = [lock_start EXCEPT ![p] = now]
    /\ error' = [error EXCEPT ![p] = "none"]
    /\ printed' = [printed EXCEPT ![p] = NoStatus]

poll(p) ==
    /\ Begin(p, "poll")
    /\ EnterWith(p)
    /\ UNCHANGED <<status, sleep_battery, is_on>>

\* A variant of print_status that takes the lock as the other methods do.
print_status_Locking(p) ==
    /\ Begin(p, "print_status")
    /\ EnterWith(p)
    /\ UNCHANGED <<status, sleep_battery, is_on>>

\* print_status reads the state file without the lock and prints it.
print_status(p) ==
    /\ Begin(p, "print_status")
    /\ printed' = [printed EXCEPT ![p] = _read_state(file)]
    /\ pc' = [pc EXCEPT ![p] = "done"]
    /\ error' = [error EXCEPT ![p] = "none"]
    /\ UNCHANGED <<status, sleep_battery, is_on, lock_start>>

enable_manual_override(p) ==
    /\ Begin(p, "enable_manual_override")
    /\ EnterWith(p)
    /\ UNCHANGED <<status, sleep_battery, is_on>>

disable_manual_override(p) ==
    /\ Begin(p, "disable_manual_override")
    /\ EnterWith(p)
    /\ UNCHANGED <<status, sleep_battery, is_on>>

\* prepare_for_sleep reads the battery before it takes the lock.
prepare_for_sleep(p, b) ==
    /\ Begin(p, "prepare_for_sleep")
    /\ sleep_battery' = [sleep_battery EXCEPT ![p] = b]
    /\ EnterWith(p)
    /\ UNCHANGED <<status, is_on>>

\* scan pings the plug and reads whether it is on before it takes the lock.
scan(p, ok) ==
    /\ Begin(p, "scan")
    /\ IF ok
       THEN /\ is_on' = [is_on EXCEPT ![p] = IF plug THEN "on" ELSE "off"]
            /\ EnterWith(p)
       ELSE /\ pc' = [pc EXCEPT ![p] = "raised"]
            /\ error' = [error EXCEPT ![p] = "RuntimeError in scan"]
            /\ printed' = [printed EXCEPT ![p] = NoStatus]
            /\ UNCHANGED <<is_on, lock_start>>
    /\ UNCHANGED <<status, sleep_battery>>

\* Inside the lock: _read_state() and the method's mutation
\* (lines 296, 316-320, 328-330, 343-348, 368-369).
ReadAndMutate(p) ==
    /\ pc[p] = "read"
    /\ seen' = [seen EXCEPT ![p] = file]
    /\ LET s == Mutate(method[p], _read_state(file), now,
                       sleep_battery[p], is_on[p] = "on")
       IN  /\ status' = [status EXCEPT ![p] = s]
           /\ given' = [given EXCEPT ![p] = s]
    /\ pc' = [pc EXCEPT ![p] = "poll"]
    /\ UNCHANGED <<env, shared, method, sleep_battery, is_on, lock_start,
                   pollLocals, printed, error>>

\* Time passes.
Tick(d) ==
    /\ ticks < MaxTicks
    /\ ticks' = ticks + 1
    /\ now' = now + d
    /\ UNCHANGED <<started, shared, method, pc, callerLocals, pollLocals, printed,
                   error>>

Init ==
    /\ now = 0
    /\ ticks = 0
    /\ started = 0
    /\ file = NoFile
    /\ lockFile = FALSE
    /\ plug \in BOOLEAN
    /\ method = [p \in Procs |-> "none"]
    /\ pc = [p \in Procs |-> "idle"]
    /\ status = [p \in Procs |-> NoStatus]
    /\ seen = [p \in Procs |-> NoFile]
    /\ given = [p \in Procs |-> NoStatus]
    /\ sleep_battery = [p \in Procs |-> NoBattery]
    /\ is_on = [p \in Procs |-> NoIsOn]
    /\ lock_start = [p \in Procs |-> NoTime]
    /\ ssid = [p \in Procs |-> NoSsid]
    /\ poll_now = [p \in Procs |-> NoTime]
    /\ battery = [p \in Procs |-> NoBattery]
    /\ desired_state = [p \in Procs |-> NoDesired]
    /\ driver = [p \in Procs |-> "none"]
    /\ printed = [p \in Procs |-> NoStatus]
    /\ error = [p \in Procs |-> "none"]

\* One step of the system: a process begins a method or takes its next
\* step, or time passes.  The battery reads one of levels, the clock
\* advances by one of steps, and, if serial, a process begins only when no
\* other runs.
Step(levels, steps, serial) ==
    \/ \E p \in Procs : (serial => Alone) /\ poll(p)
    \/ \E p \in Procs : (serial => Alone) /\ print_status(p)
    \/ \E p \in Procs : (serial => Alone) /\ enable_manual_override(p)
    \/ \E p \in Procs : (serial => Alone) /\ disable_manual_override(p)
    \/ \E p \in Procs, b \in levels : (serial => Alone) /\ prepare_for_sleep(p, b)
    \/ \E p \in Procs, ok \in BOOLEAN : (serial => Alone) /\ scan(p, ok)
    \/ \E p \in Procs : Acquire(p)
    \/ \E p \in Procs : ReadAndMutate(p)
    \/ \E p \in Procs, s \in SSIDs, b \in levels, ok \in BOOLEAN :
           _poll(p, s, b, ok)
    \/ \E p \in Procs : _write_state(p)
    \/ \E p \in Procs : Release(p)
    \/ \E d \in steps : Tick(d)

\* Concurrent invocations, interleaved at every step.
Next == Step(ConcurrentBatteryLevels, ConcurrentTickSteps, FALSE)

Spec == Init /\ [][Next]_vars

\* The invocations run one after another, with every battery level and
\* every clock step.
NextSeq == Step(BatteryLevels, TickSteps, TRUE)

SpecSeq == Init /\ [][NextSeq]_vars

\* Concurrent invocations with every battery level and every clock step.
NextFull == Step(BatteryLevels, TickSteps, FALSE)

SpecFull == Init /\ [][NextFull]_vars

\* Concurrent invocations that all run on the home network with a plug
\* that always answers, from a plug that is in the state the initial record
\* gives as currentState.  Nothing but _poll switches the plug.
InitHome == Init /\ plug = _default_state["currentState"]

NextHome ==
    \/ \E p \in Procs : poll(p)
    \/ \E p \in Procs : print_status(p)
    \/ \E p \in Procs : enable_manual_override(p)
    \/ \E p \in Procs : disable_manual_override(p)
    \/ \E p \in Procs, b \in ConcurrentBatteryLevels : prepare_for_sleep(p, b)
    \/ \E p \in Procs : scan(p, TRUE)
    \/ \E p \in Procs : Acquire(p)
    \/ \E p \in Procs : ReadAndMutate(p)
    \/ \E p \in Procs, b \in ConcurrentBatteryLevels :
           _poll(p, _HOME_SSID, b, TRUE)
    \/ \E p \in Procs : _write_state(p)
    \/ \E p \in Procs : Release(p)
    \/ \E d \in ConcurrentTickSteps : Tick(d)

SpecHome == InitHome /\ [][NextHome]_vars

TypeOK ==
    /\ lockFile \in BOOLEAN
    /\ plug \in BOOLEAN
    /\ \A p \in Procs : pc[p] \in {"idle", "lock", "wait", "done", "raised"} \cup Locked
    /\ \A p \in Procs : method[p] \in Methods \cup {"none"}

(* ----------------------------- properties ------------------------------ *)

\* The process has run lines 220-254 of _poll and holds their results.
Reconciled(p) == pc[p] \in {"write", "release", "unwind"}

\* The process ran _poll on the home network.
AtHome(p) == Reconciled(p) /\ ssid[p] = _HOME_SSID

\* The process ran _poll on another network, or on none.
Away(p) == Reconciled(p) /\ ssid[p] \in SSIDs \ {_HOME_SSID}

\* A time field of a status, in seconds.
TimeOf(s, k) == fromisoformat(s[k])

\* C1: at most one invocation is inside the locked section at a time and the
\* lock file exists while it is; from the moment an invocation has read the
\* state file until it writes it, the file is what it read, and what it wrote
\* stays until it releases the lock.  So every locked section starts from the
\* record the section before it left, in the order the lock was acquired.
C1_SerializedUpdates ==
    /\ Cardinality({p \in Procs : pc[p] \in Locked}) <= 1
    /\ \A p \in Procs : pc[p] \in Locked => lockFile
    /\ \A p \in Procs : pc[p] \in {"poll", "write"} => file = seen[p]
    /\ \A p \in Procs : pc[p] = "release" => file = status[p]

\* An invocation is about to write a changed record while another one, which
\* found the lock held, waits for it.
C1_Witness ==
    \E p, q \in Procs :
        /\ pc[p] = "write" /\ status[p] # file
        /\ pc[q] = "wait"

\* C2: poll never waits for the lock: an attempt that finds the lock held
\* ends poll at once.
C2_PollNeverWaits ==
    \A p \in Procs : method[p] = "poll" => pc[p] # "wait"

\* C3: when the plug call of _poll raises, the state file is not written: as
\* long as the failed invocation holds the lock, the file is what it read.
C3_DriverFailureKeepsFile ==
    \A p \in Procs :
        (pc[p] \in Locked /\ error[p] # "none") =>
            /\ pc[p] = "unwind"
            /\ file = seen[p]

\* A plug call failed in an invocation that would have written a record
\* different from the one in the file.
C3_Witness ==
    \E p \in Procs :
        /\ pc[p] = "unwind" /\ driver[p] = "turn_off"
        /\ file # NoFile /\ status[p] # file

C5_OverrideWins ==
    \A p \in Procs :
        (/\ AtHome(p)
         /\ Has(given[p], "manualOverrideState")
         /\ poll_now[p] < TimeOf(given[p], "manualOverrideStateExpiresAt")) =>
            desired_state[p] = given[p]["manualOverrideState"]

\* An override is in force while the thresholds have turned defaultState
\* off and a keepStateUntil is present: the desired state is on.
C5_Witness ==
    \E p \in Procs :
        /\ AtHome(p) /\ pc[p] = "write"
        /\ Has(given[p], "manualOverrideState")
        /\ ~status[p]["defaultState"]
        /\ desired_state[p] = TRUE

\* C6 as stated: once the time has reached manualOverrideStateExpiresAt,
\* the next reconciliation, on whatever network, clears both override
\* fields.  (The reconciliation runs no earlier than lock_start.)
C6_ExpiredOverrideCleared ==
    \A p \in Procs :
        (/\ pc[p] \in {"write", "release"}
         /\ Has(given[p], "manualOverrideState")
         /\ lock_start[p] >= TimeOf(given[p], "manualOverrideStateExpiresAt")) =>
            /\ ~Has(status[p], "manualOverrideState")
            /\ ~Has(status[p], "manualOverrideStateExpiresAt")

\* C6 amended: once the time has reached manualOverrideStateExpiresAt, the
\* next reconciliation on the home network clears both override fields and
\* takes defaultState as the desired state; once it has written the state
\* file, the file holds neither field.
C6_ExpiredOverrideClearedAtHome ==
    \A p \in Procs :
        (/\ AtHome(p)
         /\ Has(given[p], "manualOverrideState")
         /\ poll_now[p] >= TimeOf(given[p], "manualOverrideStateExpiresAt")) =>
            /\ ~Has(status[p], "manualOverrideState")
            /\ ~Has(status[p], "manualOverrideStateExpiresAt")
            /\ desired_state[p] = status[p]["defaultState"]
            /\ pc[p] = "release" =>
                   /\ ~Has(file, "manualOverrideState")
                   /\ ~Has(file, "manualOverrideStateExpiresAt")

\* A reconciliation at home was handed an override that had expired, and
\* has written a state file without it.
C6_Witness ==
    \E p \in Procs :
        /\ AtHome(p) /\ pc[p] = "release"
        /\ Has(given[p], "manualOverrideState")
        /\ poll_now[p] >= TimeOf(given[p], "manualOverrideStateExpiresAt")
        /\ ~Has(file, "manualOverrideState")

C8_CurrentStateFrame ==
    \A p \in Procs :
        /\ (pc[p] = "poll" \/ Reconciled(p)) =>
               given[p]["currentState"] =
                   (IF method[p] = "scan"
                    THEN is_on[p] = "on"
                    ELSE _read_state(seen[p])["currentState"])
        /\ (/\ Reconciled(p)
            /\ status[p]["currentState"] # given[p]["currentState"]) =>
               /\ pc[p] # "unwind"
               /\ error[p] = "none"
               /\ driver[p] \in {"turn_on", "turn_off"}
               /\ status[p]["currentState"] = (driver[p] = "turn_on")
               /\ plug = status[p]["currentState"]
        /\ (/\ pc[p] = "release"
            /\ file["currentState"] # _read_state(seen[p])["currentState"]) =>
               \/ driver[p] \in {"turn_on", "turn_off"}
               \/ method[p] = "scan"

\* poll has turned the plug off and written the new currentState.
C8_Witness ==
    \E p \in Procs :
        /\ pc[p] = "release" /\ method[p] = "poll"
        /\ driver[p] = "turn_off"
        /\ _read_state(seen[p])["currentState"]
        /\ ~file["currentState"]

\* C9: away from the home network _poll calls no plug method, reads neither
\* the clock nor the battery, computes no desired state, leaves the status
\* as it was given, expired fields included, and writes exactly that.
C9_AwayWritesAsGiven ==
    \A p \in Procs :
        Away(p) =>
            /\ pc[p] # "unwind"
            /\ error[p] = "none"
            /\ driver[p] = "none"
            /\ battery[p] = NoBattery
            /\ poll_now[p] = NoTime
            /\ desired_state[p] = NoDesired
            /\ status[p] = given[p]
            /\ pc[p] = "release" => file = given[p]

\* An override enabled away from home has been written to the state file,
\* with the plug not driven although it is in the other state.
C9_Witness ==
    \E p \in Procs :
        /\ Away(p) /\ pc[p] = "release"
        /\ method[p] = "enable_manual_override"
        /\ Has(file, "manualOverrideState")
        /\ ~file["currentState"]

\* C10: the lock file exists only while an invocation is inside the locked
\* section: when an invocation has left it, by return or by exception, the
\* lock is free.
C10_LockReleased ==
    /\ lockFile => \E p \in Procs : pc[p] \in Locked
    /\ Alone => ~lockFile

\* An invocation left the locked section by an exception of the plug call,
\* and another invocation has acquired the lock after it.
C10_Witness ==
    \E p, q \in Procs :
        /\ pc[p] = "raised" /\ error[p] = "RuntimeError in _poll"
        /\ pc[q] = "read"

\* The methods that take the lock with _lock().
Blocking ==
    {"enable_manual_override", "disable_manual_override", "prepare_for_sleep",
     "scan"}

\* C11: a method that takes _lock() fails with Timeout only after it has
\* waited more than 30 seconds for the lock; poll never does.  The invocation
\* that failed never entered the locked section: it has read no state, run
\* no _poll, called no plug method and written nothing.
C11_LockTimeout ==
    \A p \in Procs :
        error[p] = "Timeout" =>
            /\ pc[p] = "raised"
            /\ method[p] \in Blocking
            /\ now - lock_start[p] > 30
            /\ status[p] = NoStatus /\ given[p] = NoStatus /\ seen[p] = NoFile
            /\ ssid[p] = NoSsid /\ desired_state[p] = NoDesired
            /\ driver[p] = "none"

\* prepare_for_sleep gave up after the sleep interval had passed, while the
\* invocation that holds the lock is about to write a changed record.
C11_Witness ==
    \E p, q \in Procs :
        /\ pc[p] = "raised" /\ error[p] = "Timeout"
        /\ method[p] = "prepare_for_sleep"
        /\ pc[q] = "write" /\ status[q] # file

\* The battery percentages a run of _poll may have read: the one it read,
\* or, if it read none, any.
Readings(p) == IF battery[p] = NoBattery THEN BatteryLevels ELSE {battery[p]}

\* C12: when _poll has ended without an exception, a second run of _poll on
\* the status it wrote, with the same network, time and battery percentage,
\* makes no plug call and writes the same status again.  (The first run is
\* PollResult of the status it was given.)
C12_Idempotent ==
    \A p \in Procs :
        pc[p] \in {"write", "release"} =>
            \A b \in Readings(p) :
                /\ PollResult(given[p], ssid[p], poll_now[p], b) =
                       [status |-> status[p], driver |-> driver[p]]
                /\ PollResult(status[p], ssid[p], poll_now[p], b) =
                       [status |-> status[p], driver |-> "none"]

\* _poll at home has removed an expired keepStateUntil, switched
\* defaultState with a reading between the thresholds' ends, turned the plug
\* off and written the state file.
C12_Witness ==
    \E p \in Procs :
        /\ AtHome(p) /\ pc[p] = "release"
        /\ Has(given[p], "keepStateUntil") /\ ~Has(status[p], "keepStateUntil")
        /\ battery[p] = 75 /\ driver[p] = "turn_off"
        /\ file = status[p]

\* C13: the state file, and every status a method holds inside the lock,
\* has manualOverrideState if and only if it has
\* manualOverrideStateExpiresAt.
C13_OverrideFieldsTogether ==
    /\ Has(file, "manualOverrideState") <=>
           Has(file, "manualOverrideStateExpiresAt")
    /\ \A p \in Procs :
           Has(status[p], "manualOverrideState") <=>
               Has(status[p], "manualOverrideStateExpiresAt")

\* disable_manual_override has removed both fields from its status, but its
\* plug call raised: the file keeps the override.
C13_Witness ==
    \E p \in Procs :
        /\ pc[p] = "unwind" /\ method[p] = "disable_manual_override"
        /\ Has(file, "manualOverrideState")
        /\ ~Has(status[p], "manualOverrideStateExpiresAt")

\* C14: print_status is over in one step, without an exception and whoever
\* holds the lock: it never waits for the lock and never is inside it, it
\* runs no _poll, so it calls no plug method and writes nothing, and a lock
\* file that exists is another invocation's.
C14_StatusReadOnly ==
    \A p \in Procs :
        method[p] = "print_status" =>
            /\ pc[p] = "done" /\ error[p] = "none"
            /\ printed[p] # NoStatus
            /\ status[p] = NoStatus /\ given[p] = NoStatus
            /\ ssid[p] = NoSsid /\ desired_state[p] = NoDesired
            /\ driver[p] = "none"
            /\ lockFile => \E q \in Procs \ {p} : pc[q] \in Locked

\* print_status has printed the record another invocation has just written
\* and not yet unlocked.
C14_Witness ==
    \E p, q \in Procs :
        /\ method[p] = "print_status" /\ pc[p] = "done"
        /\ pc[q] = "release" /\ lockFile
        /\ file # seen[q] /\ printed[p] = file
        /\ Has(file, "manualOverrideState")

\* The method has acquired the lock and applied its mutation.
Mutated(p) == pc[p] \in {"poll", "write", "release", "unwind"}

\* C15 as stated: a method that has applied its mutation never leaves the
\* lock without _write_state.
C15_WriteNeverSkipped ==
    \A p \in Procs : Mutated(p) => pc[p] # "unwind"

\* C15 amended: a method that has applied its mutation leaves the lock
\* either after _write_state has written its status, on the home network or
\* away from it, or by the exception of a plug call of _poll at home, and
\* then with the file as it read it.
C15_WriteUnlessDriverFails ==
    \A p \in Procs :
        /\ Mutated(p) => lockFile
        /\ pc[p] = "release" => (file = status[p] /\ error[p] = "none")
        /\ pc[p] = "unwind" =>
               /\ error[p] = "RuntimeError in _poll"
               /\ AtHome(p) /\ driver[p] \in {"turn_on", "turn_off"}
               /\ file = seen[p]

\* prepare_for_sleep, away from home, has written its keepStateUntil and
\* defaultState to a state file that did not have them.
C15_Witness ==
    \E p \in Procs :
        /\ pc[p] = "release" /\ method[p] = "prepare_for_sleep" /\ Away(p)
        /\ Has(file, "keepStateUntil") /\ ~Has(_read_state(seen[p]), "keepStateUntil")
        /\ ~file["defaultState"]

\* C16: in _poll on the home network, the desired state is
\* manualOverrideState if the status still has it after the expiry of lines
\* 225-230, else defaultState; a plug method is called if and only if the
\* desired state differs from currentState, _turn_on for on and _turn_off
\* for off; after a call that answered the plug is in the desired state; and
\* when _poll ends without an exception, currentState, in the status and
\* in the file written, is the desired state.
C16_DriverIffDiffers ==
    \A p \in Procs :
        AtHome(p) =>
            LET desired == desired_state[p] IN
            /\ Has(status[p], "manualOverrideState") <=>
                   /\ Has(given[p], "manualOverrideState")
                   /\ poll_now[p] < TimeOf(given[p], "manualOverrideStateExpiresAt")
            /\ desired = (IF Has(status[p], "manualOverrideState")
                          THEN status[p]["manualOverrideState"]
                          ELSE status[p]["defaultState"])
            /\ driver[p] = (IF desired = given[p]["currentState"] THEN "none"
                            ELSE IF desired THEN "turn_on" ELSE "turn_off")
            /\ pc[p] = "unwind" =>
                   status[p]["currentState"] = given[p]["currentState"]
            /\ pc[p] # "unwind" =>
                   /\ status[p]["currentState"] = desired
                   /\ driver[p] # "none" => plug = desired
            /\ pc[p] = "release" => file["currentState"] = desired

\* The record {currentState: true, defaultState: true} with the battery at
\* 80 has become {currentState: false, defaultState: false} after _turn_off.
C16_Witness ==
    \E p \in Procs :
        /\ AtHome(p) /\ pc[p] = "release"
        /\ given[p] = [currentState |-> TRUE, defaultState |-> TRUE]
        /\ battery[p] = 80 /\ driver[p] = "turn_off"
        /\ file = [currentState |-> FALSE, defaultState |-> FALSE]
        /\ ~plug

\* prepare_for_sleep has run _poll at home and written the state file.
Slept(p) == method[p] = "prepare_for_sleep" /\ AtHome(p) /\ pc[p] = "release"

\* What C17 says of the file prepare_for_sleep leaves: defaultState is
\* (battery <= 30), keepStateUntil is two minutes after the time of the call
\* (a time from the start of the call to the clock reading of _poll), and
\* without a manual override currentState is (battery <= 30).
Pinned(p) ==
    /\ file["defaultState"] = (sleep_battery[p] <= 30)
    /\ Has(file, "keepStateUntil")
    /\ lock_start[p] + 120 <= TimeOf(file, "keepStateUntil")
    /\ TimeOf(file, "keepStateUntil") <= poll_now[p] + 120
    /\ ~Has(file, "manualOverrideState") =>
           file["currentState"] = (sleep_battery[p] <= 30)

\* C17 as stated: prepare_for_sleep at home always leaves the file pinned.
C17_SleepPins ==
    \A p \in Procs : Slept(p) => Pinned(p)

\* C17 amended: prepare_for_sleep at home leaves the file pinned when _poll
\* read the clock before the keepStateUntil just set, that is less than two
\* minutes after line 345 did; otherwise _poll has removed keepStateUntil
\* again and applied the thresholds to the defaultState just set.
C17_SleepPinsWithinInterval ==
    \A p \in Procs :
        Slept(p) =>
            IF poll_now[p] < TimeOf(given[p], "keepStateUntil")
            THEN Pinned(p) /\ file["keepStateUntil"] = given[p]["keepStateUntil"]
            ELSE /\ ~Has(file, "keepStateUntil")
                 /\ file["defaultState"] =
                        Thresholds(sleep_battery[p] <= 30, battery[p])

\* The defaultState was on and the battery at 51, above the discharge
\* threshold: prepare_for_sleep has turned defaultState and the plug off
\* and pinned them.
C17_Witness ==
    \E p \in Procs :
        /\ Slept(p) /\ sleep_battery[p] = 51
        /\ _read_state(seen[p])["defaultState"]
        /\ poll_now[p] < TimeOf(given[p], "keepStateUntil")
        /\ ~file["defaultState"] /\ ~file["currentState"]
        /\ driver[p] = "turn_off"

\* A status without its two time fields.
Timeless(s) ==
    [k \in DOMAIN s \ {"keepStateUntil", "manualOverrideStateExpiresAt"} |-> s[k]]

\* C18: while the state file does not exist, print_status prints
\* {currentState: true, defaultState: true} and the file still does not
\* exist; a method that found no file mutates that record; and the file
\* exists once a _poll has ended without an exception, as the status it
\* wrote.
C18_MissingFileIsDefault ==
    LET initial == [currentState |-> TRUE, defaultState |-> TRUE] IN
    \A p \in Procs :
        /\ (method[p] = "print_status" /\ file = NoFile) => printed[p] = initial
        /\ (Mutated(p) /\ seen[p] = NoFile) =>
               /\ Timeless(given[p]) =
                      Timeless(Mutate(method[p], initial, 0, sleep_battery[p],
                                      is_on[p] = "on"))
               /\ Has(given[p], "keepStateUntil") <=>
                      method[p] = "prepare_for_sleep"
               /\ Has(given[p], "manualOverrideStateExpiresAt") <=>
                      method[p] = "enable_manual_override"
        /\ pc[p] = "release" => (file # NoFile /\ file = status[p])
        /\ (file = NoFile /\ Mutated(p)) => seen[p] = NoFile

\* print_status printed the initial record when there was no file, and
\* another invocation, which found no file either, has now written one that
\* differs from the initial record.
C18_Witness ==
    \E p, q \in Procs :
        /\ method[p] = "print_status" /\ pc[p] = "done"
        /\ printed[p] = [currentState |-> TRUE, defaultState |-> TRUE]
        /\ pc[q] = "release" /\ seen[q] = NoFile
        /\ file # NoFile /\ file # printed[p]

\* C19: with every invocation on the home network and every plug call
\* answered, whenever the lock is free the currentState of the persisted
\* record is the state of the plug.
C19_CurrentStateIsPlug ==
    ~lockFile => _read_state(file)["currentState"] = plug

\* C20: manualOverrideState, in the state file and in every status a method
\* holds inside the lock, is absent or true.
C20_OverrideOnlyOn ==
    /\ Has(file, "manualOverrideState") => file["manualOverrideState"] = TRUE
    /\ \A p \in Procs :
           Has(status[p], "manualOverrideState") =>
               status[p]["manualOverrideState"] = TRUE

\* With defaultState off, an override in the file has turned the plug on,
\* and a later invocation finds it there.
C20_Witness ==
    \E p \in Procs :
        /\ pc[p] = "poll" /\ method[p] # "enable_manual_override"
        /\ Has(file, "manualOverrideState")
        /\ ~file["defaultState"] /\ file["currentState"] /\ plug

====
